---------------------------- MODULE Spec2Model ----------------------------
\* The order-lifecycle reconciliation engine of ibapi_wrapper/ibbroker.py
\* (class IBBroker) as a state machine.  The gateway callbacks (the push_
\* methods) and the strategy-side calls (submit, cancel, next,
\* get_notification) are the actions; the broker's dictionaries and queues
\* are the variables.
EXTENDS Integers, Sequences, FiniteSets, TLC

\* ------------------------------------------------------------------ bounds

\* Order identifiers are 1..MaxOrders.
MaxOrders == 1
\* Cumulative filled quantities carried by status messages are 0..MaxFilled.
MaxFilled == 2
\* The notification queue holds at most MaxNotifs items.
MaxNotifs == 2
\* At most MaxSnapshots open-order messages wait in the opened-orders queue.
MaxSnapshots == 2
\* An execution carries 0..MaxShares shares.
MaxShares == 1
\* The position stays within -MaxPosition..MaxPosition.
MaxPosition == 2
\* At most MaxReconciled commission reports of one order are reconciled
\* between two portfolio updates.
MaxReconciled == 2
\* The history counts at most MaxCalls calls of one transition method on one
\* order.
MaxCalls == 2
\* In the commission-split specification an execution carries
\* 1..MaxSplitShares shares and a commission report a commission of
\* -MaxCommission..MaxCommission (a negative commission is a rebate).
MaxSplitShares == 2
MaxCommission == 3
MaxDeliveries == 2

\* ------------------------------------------------------- program constants

\* Statuses of backtrader's OrderBase, as IBBroker names them.
Created == "Created"
Submitted == "Submitted"
Accepted == "Accepted"
Partial == "Partial"
Completed == "Completed"
Cancelled == "Cancelled"
Expired == "Expired"
Rejected == "Rejected"

OrderStatuses ==
  {Created, Submitted, Accepted, Partial, Completed, Cancelled, Expired, Rejected}

\* Order statuses carried by orderStatus messages (IBBroker class attributes).
SUBMITTED == "Submitted"
FILLED == "Filled"
CANCELLED == "Cancelled"
INACTIVE == "Inactive"
PENDINGSUBMIT == "PendingSubmit"
PENDINGCANCEL == "PendingCancel"
PRESUBMITTED == "PreSubmitted"
APICANCELLED == "ApiCancelled"

\* The statuses a gateway may send: the eight known ones and one unknown.
MsgStatuses ==
  {SUBMITTED, FILLED, CANCELLED, INACTIVE, PENDINGSUBMIT, PENDINGCANCEL,
   PRESUBMITTED, APICANCELLED, "ApiPending"}

\* Error codes of the gateway: 202 (order cancelled), 201 (order rejected)
\* and one code of the "all other cases" branch.
ErrorCodes == {202, 201, 110}

OrderIds == 1..MaxOrders
Filleds == 0..MaxFilled
\* The gateway gives every fill of an order its own execution identifier:
\* the fill that brings order oid to the cumulative quantity q is ExecIdOf(oid, q).
ExecIdOf(oid, q) == (oid - 1) * MaxFilled + q
ExecIds == 1..(MaxOrders * MaxFilled)

\* ------------------------------------------------------------------- state

VARIABLES
  orderbyid,      \* self.orderbyid: orderId -> order record
  executions,     \* self.executions: execId -> execution
  ordstatus,      \* self.ordstatus: orderId -> (filled -> status message)
  notifs,         \* self.notifs: queue of order clones and None markers
  tonotify,       \* self.tonotify: deque of orderIds waiting for notification
  opened_orders,  \* self.opened_orders: queue of open-order messages and None
  position,       \* size of the Position returned by getposition
  nextOrderId,    \* the next identifier ib.nextOrderId() hands out
  ib_cancelled,   \* orderIds passed to ib.cancelOrder
  pc,             \* where the strategy thread stands: "idle" or inside next()
  reconciled,     \* history: per order, the commission reports reconciled
                  \* since the last push_portupdate
  calls,          \* history: per order and transition method (accept,
                  \* cancel, expire, reject), how often it was called
  last,           \* history: the last status or error event delivered and
                  \* the transition method it called
  lock_orders,    \* self._lock_orders: "free" or the thread that holds it
  gw,             \* where the gateway thread stands: "idle" or inside a
                  \* handler that holds the lock, with the handler's message
  inflight,       \* per gateway thread that runs push_orderstatus: 0, or the
                  \* orderId of the CANCELLED/APICANCELLED message that has
                  \* passed the duplicate detection and not yet acted
  fills           \* history, per execId: how often push_execution stored it
                  \* (pushed), a commission report named it (reported),
                  \* position.update ran for it (position) and order.execute
                  \* ran for it (executed)

vars ==
  <<orderbyid, executions, ordstatus, notifs, tonotify, opened_orders,
    position, nextOrderId, ib_cancelled, pc, reconciled, calls, last,
    lock_orders, gw, inflight, fills>>

\* The history of an execution identifier nothing was delivered for.
NoFill == [pushed |-> 0, reported |-> 0, position |-> 0, executed |-> 0]

\* The gateway threads that may run push_orderstatus at the same time.
GwThreads == {1, 2}

\* The gateway thread outside every handler that takes the lock.
GwIdle == [at |-> "idle", id |-> 0, code |-> 0]

\* ------------------------------------------------------------ order record

\* A freshly constructed IBOrder: status Created, _willexpire False, nothing
\* executed (executed is order.executed.size, the signed sum of the fills
\* applied by execute()).  serial
\* tells the objects built for one orderId apart (0: built by _makeorder, n:
\* the n-th object rebuilt from an open-order message).
NewOrder(oid, serial) ==
  [orderId |-> oid, status |-> Created, willexpire |-> FALSE, serial |-> serial,
   executed |-> 0]

OrderSubmit(order) == [order EXCEPT !.status = Submitted]
OrderAccept(order) == [order EXCEPT !.status = Accepted]
OrderCancel(order) == [order EXCEPT !.status = Cancelled]
OrderExpire(order) == [order EXCEPT !.status = Expired]
OrderReject(order) == [order EXCEPT !.status = Rejected]
\* partial() that marks the order Completed.
OrderPartialCompletes(order) == [order EXCEPT !.status = Completed]
OrderPartial(order) == [order EXCEPT !.status = Partial]
OrderCompleted(order) == [order EXCEPT !.status = Completed]
\* alive() that holds for every status.
OrderAliveAnyStatus(order) == order.status \in OrderStatuses
OrderAlive(order) == order.status \in {Created, Submitted, Partial, Accepted}

\* The transition methods whose calls the duplicate detection is to limit.
Methods == {"accept", "cancel", "expire", "reject"}

\* ------------------------------------------------------ notification sink

\* The None that next() puts to mark a notification boundary.
Boundary ==
  [orderId |-> 0, status |-> "None", willexpire |-> FALSE, serial |-> 0,
   executed |-> 0]

\* order.clone(): a copy of the record's fields at this moment.
Clone(order) == order

\* notify(order) on a queue that hands out the newest item first.
NotifyAtHead(queue, order) == <<Clone(order)>> \o queue

\* notify(order): self.notifs.put(order.clone())
Notify(queue, order) == Append(queue, Clone(order))

\* ----------------------------------------------------------------- helpers

Remove(f, k) == [x \in DOMAIN f \ {k} |-> f[x]]
Put(f, k, v) == (k :> v) @@ f


\* ------------------------------------------------------- strategy-side calls

\* buy()/sell(): _makeorder builds an IBOrder with a fresh orderId, submit()
\* moves it to Submitted, registers it, places it and notifies it.  (Orders
\* without an OCO group: order.oco is None.)
Submit ==
  /\ pc = "idle"
  /\ nextOrderId <= MaxOrders
  /\ Len(notifs) < MaxNotifs
  /\ LET order == OrderSubmit(NewOrder(nextOrderId, 0))
     IN /\ orderbyid' = Put(orderbyid, order.orderId, order)
        /\ notifs' = Notify(notifs, order)
  /\ nextOrderId' = nextOrderId + 1
  /\ UNCHANGED <<executions, ordstatus, tonotify, opened_orders, position,
                 ib_cancelled, pc, reconciled, calls, last, lock_orders, gw,
                 inflight, fills>>

\* The order objects a caller can pass to cancel(): a tracked record itself,
\* a clone waiting in the notification queue, or an order that was never
\* registered.
CancelArgs ==
  {orderbyid[o] : o \in DOMAIN orderbyid}
    \cup {notifs[i] : i \in {j \in DOMAIN notifs : notifs[j] # Boundary}}
    \cup {NewOrder(o, 0) : o \in OrderIds \ DOMAIN orderbyid}

\* cancel(order) with the cancellation applied locally before the gateway
\* confirms it.
CancelOptimistic(order) ==
  /\ pc = "idle"
  /\ order.orderId \in DOMAIN orderbyid
  /\ order.status # Cancelled
  /\ Len(notifs) < MaxNotifs
  /\ ib_cancelled' = ib_cancelled \cup {order.orderId}
  /\ orderbyid' = [orderbyid EXCEPT ![order.orderId] = OrderCancel(@)]
  /\ notifs' = Notify(notifs, OrderCancel(orderbyid[order.orderId]))
  /\ UNCHANGED <<executions, ordstatus, tonotify, opened_orders, position,
                 nextOrderId, pc, reconciled, calls, last, lock_orders, gw,
                 inflight, fills>>

\* cancel(order)
Cancel(order) ==
  /\ pc = "idle"
  /\ IF order.orderId \notin DOMAIN orderbyid
       THEN UNCHANGED ib_cancelled
       ELSE IF order.status = Cancelled
              THEN UNCHANGED ib_cancelled
              ELSE ib_cancelled' = ib_cancelled \cup {order.orderId}
  /\ UNCHANGED <<orderbyid, executions, ordstatus, notifs, tonotify,
                 opened_orders, position, nextOrderId, pc, reconciled, calls,
                 last, lock_orders, gw, inflight, fills>>

\* get_notification(): the head of the queue, or None at once when empty.
GetNotification ==
  /\ pc = "idle"
  /\ notifs' = IF notifs = <<>> THEN notifs ELSE Tail(notifs)
  /\ UNCHANGED <<orderbyid, executions, ordstatus, tonotify, opened_orders,
                 position, nextOrderId, ib_cancelled, pc, reconciled, calls,
                 last, lock_orders, gw, inflight, fills>>

\* ------------------------------------------------ status transition engine

\* Every order asks for MaxFilled units: the gateway reports FILLED with the
\* whole quantity, and SUBMITTED, PENDINGSUBMIT and PRESUBMITTED with less.
OrderStatusMsgs ==
  {msg \in [orderId : OrderIds, status : MsgStatuses, filled : Filleds] :
     /\ msg.status = FILLED => msg.filled = MaxFilled
     /\ msg.status \in {SUBMITTED, PENDINGSUBMIT, PRESUBMITTED}
          => msg.filled < MaxFilled}

\* self.ordstatus[msg.orderId] = {msg.filled: msg}: the order's other
\* checkpoints are lost.
RecordAlone(ledger, msg) ==
  Put(ledger, msg.orderId, Put(<<>>, msg.filled, msg.status))

\* self.ordstatus[msg.orderId][msg.filled] = msg on a defaultdict(dict); the
\* ledger keeps the message's status.
Record(ledger, msg) ==
  Put(ledger, msg.orderId,
      Put(IF msg.orderId \in DOMAIN ledger THEN ledger[msg.orderId] ELSE <<>>,
          msg.filled, msg.status))

\* Duplicate detection of the CANCELLED/APICANCELLED branch: the order has
\* already been cancelled or has expired.
CancelNeverSeen(order) == FALSE
CancelSeen(order) == order.status \in {Cancelled, Expired}

\* push_orderstatus that records the message in the ledger without looking
\* the order up.
OrderStatusNoLookup(msg) ==
  [orderbyid |-> orderbyid, notifs |-> notifs,
   ordstatus |-> Record(ordstatus, msg), call |-> "none"]

\* The body of push_orderstatus as a function of the state: the order table,
\* the notification queue and the ledger it leaves behind, and the transition
\* method it called on the order ("none" when it called none).
OrderStatus(msg) ==
  LET same == [orderbyid |-> orderbyid, notifs |-> notifs,
               ordstatus |-> ordstatus, call |-> "none"]
      Moved(o2, method) ==
        [same EXCEPT !.orderbyid = [orderbyid EXCEPT ![msg.orderId] = o2],
                     !.notifs = Notify(notifs, o2),
                     !.call = method]
  IN IF msg.orderId \notin DOMAIN orderbyid
       THEN same                               \* not found, it was not an order
     ELSE
     LET order == orderbyid[msg.orderId]
     IN IF msg.status = SUBMITTED /\ msg.filled = 0
          THEN IF order.status = Accepted
                 THEN same                     \* duplicate detection
                 ELSE Moved(OrderAccept(order), "accept")
        ELSE IF msg.status = CANCELLED \/ msg.status = APICANCELLED
          THEN IF CancelSeen(order)
                 THEN same                     \* duplicate detection
               ELSE IF order.willexpire
                 THEN Moved(OrderExpire(order), "expire")
                 ELSE Moved(OrderCancel(order), "cancel")
        ELSE IF msg.status = PENDINGCANCEL
          THEN same
        ELSE IF msg.status = INACTIVE
          THEN IF order.status = Rejected
                 THEN same                     \* duplicate detection
                 ELSE Moved(OrderReject(order), "reject")
        ELSE IF msg.status \in {SUBMITTED, FILLED}
          THEN [same EXCEPT !.ordstatus = Record(ordstatus, msg)]
        ELSE IF msg.status \in {PENDINGSUBMIT, PRESUBMITTED}
          THEN IF msg.filled # 0
                 THEN [same EXCEPT !.ordstatus = Record(ordstatus, msg)]
                 ELSE same
        ELSE same                              \* unknown status

\* The history of transition calls after one more call of method on order oid.
Called(oid, method) ==
  IF method = "none" THEN calls
  ELSE [calls EXCEPT ![oid][method] = @ + 1]

\* push_orderstatus(msg)
PushOrderStatus(msg) ==
  LET out == OrderStatus(msg)
  IN /\ Len(out.notifs) <= MaxNotifs
     /\ orderbyid' = out.orderbyid
     /\ notifs' = out.notifs
     /\ ordstatus' = out.ordstatus
     /\ UNCHANGED <<executions, tonotify, opened_orders, position,
                    nextOrderId, ib_cancelled, pc, reconciled, calls,
                    last, lock_orders, gw, inflight, fills>>

\* push_orderstatus(msg), with the transition call recorded in the history.
PushOrderStatusCounted(msg) ==
  LET out == OrderStatus(msg)
  IN /\ Len(out.notifs) <= MaxNotifs
     /\ out.call # "none" => calls[msg.orderId][out.call] < MaxCalls
     /\ orderbyid' = out.orderbyid
     /\ notifs' = out.notifs
     /\ ordstatus' = out.ordstatus
     /\ calls' = Called(msg.orderId, out.call)
     /\ last' = [id |-> msg.orderId, event |-> msg.status, call |-> out.call]
     /\ UNCHANGED <<executions, tonotify, opened_orders, position,
                    nextOrderId, ib_cancelled, pc, reconciled,
                    lock_orders, gw, inflight, fills>>

OrderErrorMsgs == [id : OrderIds, errorCode : ErrorCodes]

\* The body of push_ordererror as a function of the state.
OrderError(msg) ==
  LET same == [orderbyid |-> orderbyid, notifs |-> notifs, call |-> "none"]
      Moved(o2, method) ==
        [orderbyid |-> [orderbyid EXCEPT ![msg.id] = o2],
         notifs |-> Notify(notifs, o2),
         call |-> method]
  IN IF msg.id \notin DOMAIN orderbyid
       THEN same                               \* no order or no id in error
     ELSE
     LET order == orderbyid[msg.id]
     IN IF msg.errorCode = 202
          THEN IF ~OrderAlive(order)
                 THEN same
                 ELSE Moved(OrderCancel(order), "cancel")
        ELSE IF msg.errorCode = 201
          THEN IF order.status = Rejected
                 THEN same
                 ELSE Moved(OrderReject(order), "reject")
        ELSE Moved(OrderReject(order), "reject")   \* default for all other cases

\* push_ordererror(msg)
PushOrderError(msg) ==
  LET out == OrderError(msg)
  IN /\ Len(out.notifs) <= MaxNotifs
     /\ orderbyid' = out.orderbyid
     /\ notifs' = out.notifs
     /\ UNCHANGED <<executions, ordstatus, tonotify, opened_orders, position,
                    nextOrderId, ib_cancelled, pc, reconciled, calls,
                    last, lock_orders, gw, inflight, fills>>

\* push_ordererror(msg), with the transition call recorded in the history.
PushOrderErrorCounted(msg) ==
  LET out == OrderError(msg)
  IN /\ Len(out.notifs) <= MaxNotifs
     /\ out.call # "none" => calls[msg.id][out.call] < MaxCalls
     /\ orderbyid' = out.orderbyid
     /\ notifs' = out.notifs
     /\ calls' = Called(msg.id, out.call)
     /\ last' = [id |-> msg.id, event |-> "error", call |-> out.call]
     /\ UNCHANGED <<executions, ordstatus, tonotify, opened_orders, position,
                    nextOrderId, ib_cancelled, pc, reconciled,
                    lock_orders, gw, inflight, fills>>

\* ------------------------------------------ execution/commission reconciler

\* An order is a BUY or a SELL order, and the gateway reports its executions
\* with the matching side: odd identifiers buy, even identifiers sell.
ExecSide(oid) == IF oid % 2 = 1 THEN "BOT" ELSE "SLD"

\* ex.time as the list ex.time.split(" ") yields: "D" a YYYYMMDD token, "T" an
\* HH:MM:SS token, "Z" a zone or weekday word.  NoTime is ex.time == None.
NoTime == <<>>
GoodTime == <<"D", "T", "Z">>
ExecTimes == {GoodTime, <<"D", "T">>, NoTime}

\* The executions the gateway reports: well-formed ones, ones with no shares
\* and ones whose time does not have the expected tokens.
ExecutionMsgs ==
  {ex \in [execId : ExecIds, orderId : OrderIds, cumQty : 1..MaxFilled,
           shares : 0..MaxShares, side : {"BOT", "SLD"}, time : ExecTimes] :
     /\ ex.execId = ExecIdOf(ex.orderId, ex.cumQty)
     /\ ex.side = ExecSide(ex.orderId)
     /\ ex.shares = 0 => ex.time = GoodTime}

\* push_execution(ex)
PushExecution(ex) ==
  /\ executions' = Put(executions, ex.execId, ex)
  /\ UNCHANGED <<orderbyid, ordstatus, notifs, tonotify, opened_orders,
                 position, nextOrderId, ib_cancelled, pc, reconciled, calls,
                 last, lock_orders, gw, inflight, fills>>

\* Position.update that reports the whole fill as opened, also when it
\* reduces, closes or reverses the position.
PositionUpdateAllOpened(oldsize, size) ==
  [size |-> oldsize + size,
   opened |-> IF oldsize = 0 \/ (oldsize > 0) = (size > 0)
                THEN size ELSE oldsize + size,
   closed |-> 0]

\* Position.update(size, price): the new size and the opened/closed split.
PositionUpdate(oldsize, size) ==
  LET newsize == oldsize + size
  IN IF newsize = 0 THEN [size |-> newsize, opened |-> 0, closed |-> size]
     ELSE IF oldsize = 0 THEN [size |-> newsize, opened |-> size, closed |-> 0]
     ELSE IF oldsize > 0
       THEN IF size > 0
              THEN [size |-> newsize, opened |-> size, closed |-> 0]
            ELSE IF newsize > 0
              THEN [size |-> newsize, opened |-> 0, closed |-> size]
            ELSE [size |-> newsize, opened |-> newsize, closed |-> -oldsize]
       ELSE IF size < 0
              THEN [size |-> newsize, opened |-> size, closed |-> 0]
            ELSE IF newsize < 0
              THEN [size |-> newsize, opened |-> 0, closed |-> size]
            ELSE [size |-> newsize, opened |-> newsize, closed |-> -oldsize]

\* Whether the timestamp parses: with more than one token the last one is
\* dropped and the rest must read '%Y%m%d %H:%M:%S'; with none or one token
\* strptime is given ex.time itself and the format '%Y%m%d %H:%M:%S %A',
\* which neither None nor a single token matches.
ParseExecTime(time) ==
  IF Len(time) > 1
    THEN SubSeq(time, 1, Len(time) - 1) = <<"D", "T">>
    ELSE FALSE

\* order.execute(dt, size, ...): adds the fill to order.executed.
OrderExecute(order, size) == [order EXCEPT !.executed = @ + size]

\* size = ex.shares if ex.side[0] == 'B' else -ex.shares
FillSize(ex) == IF ex.side = "BOT" THEN ex.shares ELSE -ex.shares

\* Rationals as <<numerator, denominator>> with a nonzero denominator.
RatEq(a, b) == a[1] * b[2] = b[1] * a[2]
RatAdd(a, b) == <<a[1] * b[2] + b[1] * a[2], a[2] * b[2]>>
RatSub(a, b) == <<a[1] * b[2] - b[1] * a[2], a[2] * b[2]>>

\* closedcomm = comm * float(closed) / float(size)
\* openedcomm = comm - closedcomm
CommissionSplit(comm, size, closed) ==
  LET closedcomm == <<comm * closed, size>>
  IN [closedcomm |-> closedcomm, openedcomm |-> RatSub(<<comm, 1>>, closedcomm)]

\* self.tonotify.appendleft(oid) with no membership test.
ToNotifyPushFront(pending, oid) == <<oid>> \o pending
\* self.tonotify.append(oid) with no membership test.
ToNotifyEveryReport(pending, oid) == Append(pending, oid)
\* if oid not in self.tonotify: self.tonotify.append(oid)
ToNotify(pending, oid) ==
  IF \E i \in DOMAIN pending : pending[i] = oid
    THEN pending ELSE Append(pending, oid)

\* The body of push_commissionreport as a function of the state: the values
\* the handler leaves behind, and ok = TRUE when it ran to the end (no
\* exception was caught).
CommissionReport(cr) ==
  LET same == [executions |-> executions, ordstatus |-> ordstatus,
               orderbyid |-> orderbyid, position |-> position,
               tonotify |-> tonotify, ok |-> FALSE]
  IN IF cr.execId \notin DOMAIN executions
       THEN same                                   \* executions.pop: KeyError
     ELSE
     LET ex == executions[cr.execId]
         oid == ex.orderId
         popped == [same EXCEPT !.executions = Remove(executions, cr.execId)]
     IN IF oid \notin DOMAIN orderbyid
          THEN popped                              \* orderbyid[oid]: KeyError
        ELSE
        LET order == orderbyid[oid]
            \* self.ordstatus[oid] on a defaultdict creates the order's dict
            ledger == IF oid \in DOMAIN ordstatus
                        THEN ordstatus ELSE Put(ordstatus, oid, <<>>)
        IN IF ex.cumQty \notin DOMAIN ledger[oid]
             THEN [popped EXCEPT !.ordstatus = ledger]   \* pop(cumQty): KeyError
           ELSE
           LET ostatus == ledger[oid][ex.cumQty]
               taken == [ledger EXCEPT ![oid] = Remove(@, ex.cumQty)]
               size == IF ex.side = "BOT" THEN ex.shares ELSE -ex.shares
               upd == PositionUpdate(position, size)
               updated == [popped EXCEPT !.ordstatus = taken,
                                         !.position = upd.size]
           IN IF size = 0
                THEN updated                       \* closed / size: ZeroDivisionError
              ELSE IF ~ParseExecTime(ex.time)
                THEN updated                       \* strptime: ValueError, TypeError
              ELSE
              LET executed == OrderExecute(order, size)
                  o2 == IF ostatus = FILLED
                          THEN OrderCompleted(executed)
                          ELSE OrderPartial(executed)
              IN [updated EXCEPT
                    !.orderbyid = [orderbyid EXCEPT ![oid] = o2],
                    !.ordstatus = IF ostatus = FILLED
                                    THEN Remove(taken, oid) ELSE taken,
                    !.tonotify = ToNotify(tonotify, oid),
                    !.ok = TRUE]

CommissionReportMsgs == [execId : ExecIds]

\* push_commissionreport(cr)
PushCommissionReport(cr) ==
  LET out == CommissionReport(cr)
  IN /\ out.position \in -MaxPosition..MaxPosition
     /\ out.ok => reconciled[executions[cr.execId].orderId] < MaxReconciled
     /\ executions' = out.executions
     /\ ordstatus' = out.ordstatus
     /\ orderbyid' = out.orderbyid
     /\ position' = out.position
     /\ tonotify' = out.tonotify
     /\ reconciled' = IF out.ok
                        THEN [reconciled EXCEPT
                                ![executions[cr.execId].orderId] = @ + 1]
                        ELSE reconciled
     /\ UNCHANGED <<notifs, opened_orders, nextOrderId, ib_cancelled, pc,
                    calls, last, lock_orders, gw, inflight, fills>>

\* push_execution(ex), with the delivery recorded in the history.
PushExecutionCounted(ex) ==
  /\ fills[ex.execId].pushed < MaxDeliveries
  /\ executions' = Put(executions, ex.execId, ex)
  /\ fills' = [fills EXCEPT ![ex.execId].pushed = @ + 1]
  /\ UNCHANGED <<orderbyid, ordstatus, notifs, tonotify, opened_orders,
                 position, nextOrderId, ib_cancelled, pc, reconciled, calls,
                 last, lock_orders, gw, inflight>>

\* Whether push_commissionreport(cr) reaches position.update (line 571): the
\* execution, its order and its ledger checkpoint were all found.
ReachesPositionUpdate(cr) ==
  /\ cr.execId \in DOMAIN executions
  /\ executions[cr.execId].orderId \in DOMAIN orderbyid
  /\ executions[cr.execId].orderId \in DOMAIN ordstatus
  /\ executions[cr.execId].cumQty
       \in DOMAIN ordstatus[executions[cr.execId].orderId]

\* push_commissionreport(cr), with the report, the position update and the
\* execute() call recorded in the history.
PushCommissionReportCounted(cr) ==
  LET out == CommissionReport(cr)
  IN /\ fills[cr.execId].reported < MaxDeliveries
     /\ out.position \in -MaxPosition..MaxPosition
     /\ executions' = out.executions
     /\ ordstatus' = out.ordstatus
     /\ orderbyid' = out.orderbyid
     /\ position' = out.position
     /\ tonotify' = out.tonotify
     /\ fills' = [fills EXCEPT
                    ![cr.execId].reported = @ + 1,
                    ![cr.execId].position =
                       IF ReachesPositionUpdate(cr) THEN @ + 1 ELSE @,
                    ![cr.execId].executed = IF out.ok THEN @ + 1 ELSE @]
     /\ UNCHANGED <<notifs, opened_orders, nextOrderId, ib_cancelled, pc,
                    reconciled, calls, last, lock_orders, gw, inflight>>

\* The loop of push_portupdate: pop the head of tonotify, look the order up
\* (a KeyError ends the handler with the popped identifier gone), notify it.
RECURSIVE PortDrain(_, _)
PortDrain(pending, queue) ==
  IF pending = <<>> THEN [tonotify |-> pending, notifs |-> queue]
  ELSE IF Head(pending) \notin DOMAIN orderbyid
    THEN [tonotify |-> Tail(pending), notifs |-> queue]
  ELSE PortDrain(Tail(pending), Notify(queue, orderbyid[Head(pending)]))

\* push_portupdate()
PushPortUpdate ==
  LET out == PortDrain(tonotify, notifs)
  IN /\ Len(out.notifs) <= MaxNotifs
     /\ tonotify' = out.tonotify
     /\ notifs' = out.notifs
     /\ reconciled' = [o \in OrderIds |-> 0]
     /\ UNCHANGED <<orderbyid, executions, ordstatus, opened_orders, position,
                    nextOrderId, ib_cancelled, pc, calls,
                    last, lock_orders, gw, inflight, fills>>

\* ---------------------------------------------------- open-order reconciler

\* self.ib.clientId, and the clientId of another API client.
ClientIds == {"me", "other"}

\* The order store: permId 0 has no file, every other permId p has a file
\* whose order_id is p.
PermIds == 0..(MaxOrders + 1)
NoFile == [order_id |-> 0, found |-> FALSE]
\* _load_order that finds the file of permId 1 when perm_id has none.
LoadOrderFallback(perm_id) ==
  [order_id |-> IF perm_id = 0 THEN 1 ELSE perm_id, found |-> TRUE]
LoadOrder(perm_id) ==
  IF perm_id = 0 THEN NoFile ELSE [order_id |-> perm_id, found |-> TRUE]

\* The None that push_openorder() enqueues when all open orders were pushed.
OpenOrderEnd == [orderId |-> 0, clientId |-> "", permId |-> 0, status |-> "None"]

OpenOrderMsgs ==
  [orderId : OrderIds, clientId : ClientIds, permId : PermIds,
   status : {SUBMITTED, PENDINGCANCEL}]

\* push_openorder(msg): the end marker is enqueued; a message for a tracked
\* order is dropped, any other message is enqueued.  The gateway reports its
\* own client's orders only below the next valid identifier.
PushOpenOrder(msg) ==
  /\ msg # OpenOrderEnd => (msg.clientId = "other" \/ msg.orderId < nextOrderId)
  /\ IF msg = OpenOrderEnd
       THEN /\ Len(opened_orders) < MaxSnapshots
            /\ opened_orders' = Append(opened_orders, msg)
       ELSE IF msg.orderId \in DOMAIN orderbyid
              THEN UNCHANGED opened_orders
              ELSE /\ Len(opened_orders) < MaxSnapshots
                   /\ opened_orders' = Append(opened_orders, msg)
  /\ UNCHANGED <<orderbyid, executions, ordstatus, notifs, tonotify,
                 position, nextOrderId, ib_cancelled, pc, reconciled, calls,
                 last, lock_orders, gw, inflight, fills>>

\* What the history keeps of an open-order message: whether it reported a
\* tracked order as PendingCancel.
SnapshotEvent(msg) ==
  IF /\ msg # OpenOrderEnd
     /\ msg.orderId \in DOMAIN orderbyid
     /\ msg.status = PENDINGCANCEL
    THEN "openOrder PendingCancel" ELSE "openOrder"

\* push_openorder(msg), with the message recorded in the history.
PushOpenOrderCounted(msg) ==
  /\ msg # OpenOrderEnd => (msg.clientId = "other" \/ msg.orderId < nextOrderId)
  /\ IF msg = OpenOrderEnd
       THEN /\ Len(opened_orders) < MaxSnapshots
            /\ opened_orders' = Append(opened_orders, msg)
       ELSE IF msg.orderId \in DOMAIN orderbyid
              THEN UNCHANGED opened_orders
              ELSE /\ Len(opened_orders) < MaxSnapshots
                   /\ opened_orders' = Append(opened_orders, msg)
  /\ last' = [id |-> msg.orderId, event |-> SnapshotEvent(msg), call |-> "none"]
  /\ UNCHANGED <<orderbyid, executions, ordstatus, notifs, tonotify,
                 position, nextOrderId, ib_cancelled, pc, reconciled, calls,
                 lock_orders, gw, inflight, fills>>

\* rebuild_iborder_from_open_order(msg): the order table and the
\* notification queue it leaves behind.
Rebuild(msg) ==
  LET same == [orderbyid |-> orderbyid, notifs |-> notifs]
      order_data == LoadOrder(msg.permId)
  IN IF msg.clientId # "me" THEN same
     ELSE IF ~order_data.found THEN same
     ELSE IF order_data.order_id # msg.orderId THEN same
     ELSE LET ib_order ==
                NewOrder(msg.orderId,
                         IF msg.orderId \in DOMAIN orderbyid
                           THEN orderbyid[msg.orderId].serial + 1 ELSE 1)
          IN [orderbyid |-> Put(orderbyid, msg.orderId, ib_order),
              notifs |-> Notify(notifs, ib_order)]

\* next(), first part: with an empty opened-orders queue the boundary marker
\* is put at once; otherwise the drain loop is entered.
NextBegin ==
  /\ pc = "idle"
  /\ IF opened_orders = <<>>
       THEN /\ Len(notifs) < MaxNotifs
            /\ notifs' = Append(notifs, Boundary)
            /\ UNCHANGED pc
       ELSE /\ pc' = "drain"
            /\ UNCHANGED notifs
  /\ UNCHANGED <<orderbyid, executions, ordstatus, tonotify, opened_orders,
                 position, nextOrderId, ib_cancelled, reconciled, calls,
                 last, lock_orders, gw, inflight, fills>>

\* next(), one turn of the drain loop: opened_orders.get() waits for a
\* message; the end marker leaves the loop and puts the boundary marker, any
\* other message is rebuilt.
NextDrain ==
  /\ pc = "drain"
  /\ opened_orders # <<>>
  /\ opened_orders' = Tail(opened_orders)
  /\ IF Head(opened_orders) = OpenOrderEnd
       THEN /\ Len(notifs) < MaxNotifs
            /\ notifs' = Append(notifs, Boundary)
            /\ pc' = "idle"
            /\ UNCHANGED orderbyid
       ELSE LET out == Rebuild(Head(opened_orders))
            IN /\ Len(out.notifs) <= MaxNotifs
               /\ orderbyid' = out.orderbyid
               /\ notifs' = out.notifs
               /\ UNCHANGED pc
  /\ UNCHANGED <<executions, ordstatus, tonotify, position, nextOrderId,
                 ib_cancelled, reconciled, calls, last, lock_orders, gw,
                 inflight, fills>>

\* ------------------------------------------------------------------ threads

\* The strategy thread and the gateway's reader thread run the handlers
\* concurrently.  A handler that takes self._lock_orders is two steps of its
\* thread: entering the with block, and the block's body with the release.
\* A handler that takes no lock is one step.  submit() is three steps, because
\* the gateway answers from the moment placeOrder() has sent the order.

\* The order of a submit() that has not reached ib.placeOrder() yet.
Unplaced == IF pc = "submit_place" THEN {nextOrderId - 1} ELSE {}

\* submit(), lines 357-365: order.submit() and the registration, no lock held.
SubmitRegister ==
  /\ pc = "idle"
  /\ nextOrderId <= MaxOrders
  /\ LET order == OrderSubmit(NewOrder(nextOrderId, 0))
     IN orderbyid' = Put(orderbyid, order.orderId, order)
  /\ nextOrderId' = nextOrderId + 1
  /\ pc' = "submit_place"
  /\ UNCHANGED <<executions, ordstatus, notifs, tonotify, opened_orders,
                 position, ib_cancelled, reconciled, calls, last, lock_orders,
                 gw, inflight, fills>>

\* submit(), line 366: self.ib.placeOrder(...)
SubmitPlace ==
  /\ pc = "submit_place"
  /\ pc' = "submit_notify"
  /\ UNCHANGED <<orderbyid, executions, ordstatus, notifs, tonotify,
                 opened_orders, position, nextOrderId, ib_cancelled,
                 reconciled, calls, last, lock_orders, gw, inflight, fills>>

\* submit(), line 367: self.notify(order) clones the registered object as it
\* is now.
SubmitNotify ==
  /\ pc = "submit_notify"
  /\ Len(notifs) < MaxNotifs
  /\ notifs' = Notify(notifs, orderbyid[nextOrderId - 1])
  /\ pc' = "idle"
  /\ UNCHANGED <<orderbyid, executions, ordstatus, tonotify, opened_orders,
                 position, nextOrderId, ib_cancelled, reconciled, calls, last,
                 lock_orders, gw, inflight, fills>>

\* The gateway thread runs push_orderstatus, which takes no lock; the gateway
\* reports no status of an order it has not been sent.
GwOrderStatus(msg) ==
  /\ gw.at = "idle"
  /\ msg.orderId \notin Unplaced
  /\ PushOrderStatus(msg)

\* The gateway thread runs push_execution, which takes no lock; here the
\* gateway reports well-formed executions only.
GwExecution(ex) ==
  /\ gw.at = "idle"
  /\ ex.orderId \notin Unplaced
  /\ ex.shares > 0
  /\ ex.time = GoodTime
  /\ PushExecution(ex)

\* with self._lock_orders: entered by the gateway thread in handler at.
GwAcquire(at, id, code) ==
  /\ gw.at = "idle"
  /\ lock_orders = "free"
  /\ lock_orders' = "gateway"
  /\ gw' = [at |-> at, id |-> id, code |-> code]
  /\ UNCHANGED <<orderbyid, executions, ordstatus, notifs, tonotify,
                 opened_orders, position, nextOrderId, ib_cancelled, pc,
                 reconciled, calls, last, inflight, fills>>

\* The with block of push_commissionreport and the release of the lock.
GwCommissionReport ==
  /\ gw.at = "commission"
  /\ LET out == CommissionReport([execId |-> gw.id])
     IN /\ out.position \in -MaxPosition..MaxPosition
        /\ executions' = out.executions
        /\ ordstatus' = out.ordstatus
        /\ orderbyid' = out.orderbyid
        /\ position' = out.position
        /\ tonotify' = out.tonotify
  /\ lock_orders' = "free"
  /\ gw' = GwIdle
  /\ UNCHANGED <<notifs, opened_orders, nextOrderId, ib_cancelled, pc,
                 reconciled, calls, last, inflight, fills>>

\* The with block of push_portupdate and the release of the lock.
GwPortUpdate ==
  /\ gw.at = "portupdate"
  /\ LET out == PortDrain(tonotify, notifs)
     IN /\ Len(out.notifs) <= MaxNotifs
        /\ tonotify' = out.tonotify
        /\ notifs' = out.notifs
  /\ lock_orders' = "free"
  /\ gw' = GwIdle
  /\ UNCHANGED <<orderbyid, executions, ordstatus, opened_orders, position,
                 nextOrderId, ib_cancelled, pc, reconciled, calls, last,
                 inflight, fills>>

\* The with block of push_ordererror and the release of the lock.
GwOrderError ==
  /\ gw.at = "ordererror"
  /\ LET out == OrderError([id |-> gw.id, errorCode |-> gw.code])
     IN /\ Len(out.notifs) <= MaxNotifs
        /\ orderbyid' = out.orderbyid
        /\ notifs' = out.notifs
  /\ lock_orders' = "free"
  /\ gw' = GwIdle
  /\ UNCHANGED <<executions, ordstatus, tonotify, opened_orders, position,
                 nextOrderId, ib_cancelled, pc, reconciled, calls, last,
                 inflight, fills>>

\* push_orderstatus(msg) for a CANCELLED or APICANCELLED message on gateway
\* thread t, lines 454-468: the lookup and the duplicate detection, with no
\* lock held.  The handler returns, or goes on to the transition.
StatusCheck(t, msg) ==
  /\ inflight[t] = 0
  /\ msg.status \in {CANCELLED, APICANCELLED}
  /\ IF msg.orderId \notin DOMAIN orderbyid
       THEN UNCHANGED inflight
       ELSE IF CancelSeen(orderbyid[msg.orderId])
              THEN UNCHANGED inflight
              ELSE inflight' = [inflight EXCEPT ![t] = msg.orderId]
  /\ UNCHANGED <<orderbyid, executions, ordstatus, notifs, tonotify,
                 opened_orders, position, nextOrderId, ib_cancelled, pc,
                 reconciled, calls, last, lock_orders, gw, fills>>

\* push_orderstatus(msg) on gateway thread t, lines 470-477: expire() or
\* cancel() and the notification.
StatusAct(t) ==
  /\ inflight[t] # 0
  /\ LET oid == inflight[t]
         order == orderbyid[oid]
         method == IF order.willexpire THEN "expire" ELSE "cancel"
         o2 == IF order.willexpire THEN OrderExpire(order) ELSE OrderCancel(order)
     IN /\ Len(notifs) < MaxNotifs
        /\ calls[oid][method] < MaxCalls
        /\ orderbyid' = [orderbyid EXCEPT ![oid] = o2]
        /\ notifs' = Notify(notifs, o2)
        /\ calls' = Called(oid, method)
        /\ last' = [id |-> oid, event |-> CANCELLED, call |-> method]
  /\ inflight' = [inflight EXCEPT ![t] = 0]
  /\ UNCHANGED <<executions, ordstatus, tonotify, opened_orders, position,
                 nextOrderId, ib_cancelled, pc, reconciled, lock_orders, gw,
                 fills>>

\* --------------------------------------------------------- commission split

\* The commissions a report carries.
Commissions == (-MaxCommission)..MaxCommission

\* Well-formed executions of either side with 1..MaxSplitShares shares.
SplitExecutionMsgs ==
  {ex \in [execId : ExecIds, orderId : OrderIds, cumQty : 1..MaxFilled,
           shares : 1..MaxSplitShares, side : {"BOT", "SLD"},
           time : {GoodTime}] :
     ex.execId = ExecIdOf(ex.orderId, ex.cumQty)}

\* push_execution(ex) for an order that buys or sells: every execution of one
\* order has the same side.
PushExecutionOneSide(ex) ==
  /\ ex.orderId \in DOMAIN orderbyid
  /\ orderbyid[ex.orderId].executed > 0 => ex.side = "BOT"
  /\ orderbyid[ex.orderId].executed < 0 => ex.side = "SLD"
  /\ \A e \in DOMAIN executions :
       executions[e].orderId = ex.orderId => executions[e].side = ex.side
  /\ PushExecution(ex)

\* ------------------------------------------------------------ specification

\* The broker after __init__: empty tables and queues.  The gateway's next
\* valid identifier is any of 1..MaxOrders+1: the identifiers below it belong
\* to orders of earlier sessions.
Init ==
  /\ orderbyid = <<>>
  /\ executions = <<>>
  /\ ordstatus = <<>>
  /\ notifs = <<>>
  /\ tonotify = <<>>
  /\ opened_orders = <<>>
  /\ position = 0
  /\ nextOrderId \in 1..(MaxOrders + 1)
  /\ ib_cancelled = {}
  /\ pc = "idle"
  /\ reconciled = [o \in OrderIds |-> 0]
  /\ calls = [o \in OrderIds |-> [m \in Methods |-> 0]]
  /\ last = [id |-> 0, event |-> "none", call |-> "none"]
  /\ lock_orders = "free"
  /\ gw = GwIdle
  /\ inflight = [t \in GwThreads |-> 0]
  /\ fills = [e \in ExecIds |-> NoFill]

Next ==
  \/ Submit
  \/ \E order \in CancelArgs : Cancel(order)
  \/ GetNotification
  \/ NextBegin
  \/ NextDrain
  \/ \E msg \in OrderStatusMsgs : PushOrderStatus(msg)
  \/ \E msg \in OrderErrorMsgs : PushOrderError(msg)
  \/ \E ex \in ExecutionMsgs : PushExecution(ex)
  \/ \E cr \in CommissionReportMsgs : PushCommissionReport(cr)
  \/ PushPortUpdate
  \/ \E msg \in OpenOrderMsgs \cup {OpenOrderEnd} : PushOpenOrder(msg)

\* The whole engine.
Spec == Init /\ [][Next]_vars

\* The status transition engine and cancel(), with the history of the
\* transition calls.
NextStatus ==
  \/ Submit
  \/ \E order \in CancelArgs : Cancel(order)
  \/ GetNotification
  \/ \E msg \in OrderStatusMsgs : PushOrderStatusCounted(msg)
  \/ \E msg \in OrderErrorMsgs : PushOrderErrorCounted(msg)

SpecStatus == Init /\ [][NextStatus]_vars

\* A trading session in which the gateway reports no open orders of earlier
\* sessions: submission, every status, error, execution, commission and
\* portfolio event, and the strategy draining its notifications.
NextFills ==
  \/ Submit
  \/ GetNotification
  \/ \E msg \in OrderStatusMsgs : PushOrderStatus(msg)
  \/ \E msg \in OrderErrorMsgs : PushOrderError(msg)
  \/ \E ex \in ExecutionMsgs : PushExecution(ex)
  \/ \E cr \in CommissionReportMsgs : PushCommissionReport(cr)
  \/ PushPortUpdate

SpecFills == Init /\ [][NextFills]_vars

\* A reconnect: the gateway reports the open orders of earlier sessions while
\* the status transition engine runs; no fills.
NextOpen ==
  \/ Submit
  \/ GetNotification
  \/ NextBegin
  \/ NextDrain
  \/ \E msg \in OrderStatusMsgs : PushOrderStatus(msg)
  \/ \E msg \in OpenOrderMsgs \cup {OpenOrderEnd} : PushOpenOrder(msg)

SpecOpen == Init /\ [][NextOpen]_vars

\* The strategy thread submitting and draining notifications while the
\* gateway thread delivers status, execution, commission, portfolio and error
\* events, one step of one thread at a time.
NextThreads ==
  \/ SubmitRegister
  \/ SubmitPlace
  \/ SubmitNotify
  \/ GetNotification
  \/ \E msg \in OrderStatusMsgs : GwOrderStatus(msg)
  \/ \E ex \in ExecutionMsgs : GwExecution(ex)
  \/ \E cr \in CommissionReportMsgs : GwAcquire("commission", cr.execId, 0)
  \/ GwAcquire("portupdate", 0, 0)
  \/ \E msg \in OrderErrorMsgs :
       msg.id \notin Unplaced /\ GwAcquire("ordererror", msg.id, msg.errorCode)
  \/ GwCommissionReport
  \/ GwPortUpdate
  \/ GwOrderError

SpecThreads == Init /\ [][NextThreads]_vars

\* The broker started on an account that holds any position, long, flat or
\* short.
InitSplit ==
  /\ orderbyid = <<>>
  /\ executions = <<>>
  /\ ordstatus = <<>>
  /\ notifs = <<>>
  /\ tonotify = <<>>
  /\ opened_orders = <<>>
  /\ position \in (-MaxPosition)..MaxPosition
  /\ nextOrderId = 1
  /\ ib_cancelled = {}
  /\ pc = "idle"
  /\ reconciled = [o \in OrderIds |-> 0]
  /\ calls = [o \in OrderIds |-> [m \in Methods |-> 0]]
  /\ last = [id |-> 0, event |-> "none", call |-> "none"]
  /\ lock_orders = "free"
  /\ gw = GwIdle
  /\ inflight = [t \in GwThreads |-> 0]
  /\ fills = [e \in ExecIds |-> NoFill]

\* Fills of orders of either side against any position: the status events
\* that record fill checkpoints, executions, commission reports and portfolio
\* updates.
NextSplit ==
  \/ Submit
  \/ GetNotification
  \/ \E msg \in OrderStatusMsgs :
       /\ msg.status \in {SUBMITTED, FILLED}
       /\ msg.filled > 0
       /\ PushOrderStatus(msg)
  \/ \E ex \in SplitExecutionMsgs : PushExecutionOneSide(ex)
  \/ \E cr \in CommissionReportMsgs : PushCommissionReport(cr)
  \/ PushPortUpdate

SpecSplit == InitSplit /\ [][NextSplit]_vars

\* The status transition engine while the gateway reports the open orders of
\* this session, which are tracked, with the history of the events.
NextExpiry ==
  \/ Submit
  \/ GetNotification
  \/ \E msg \in OrderStatusMsgs : PushOrderStatusCounted(msg)
  \/ \E msg \in OpenOrderMsgs :
       /\ msg.clientId = "me"
       /\ msg.orderId \in DOMAIN orderbyid
       /\ PushOpenOrderCounted(msg)

SpecExpiry == Init /\ [][NextExpiry]_vars

\* Cancellation reported twice: the strategy submits and cancels, and gateway
\* threads deliver CANCELLED and APICANCELLED status events, one step of one
\* thread at a time, next to the other status events and the error 202.
NextRace ==
  \/ Submit
  \/ \E order \in CancelArgs : Cancel(order)
  \/ GetNotification
  \/ \E msg \in OrderStatusMsgs :
       msg.status \notin {CANCELLED, APICANCELLED} /\ PushOrderStatusCounted(msg)
  \/ \E t \in GwThreads : \E msg \in OrderStatusMsgs : StatusCheck(t, msg)
  \/ \E t \in GwThreads : StatusAct(t)
  \/ \E msg \in OrderErrorMsgs :
       msg.errorCode = 202 /\ PushOrderErrorCounted(msg)

SpecRace == Init /\ [][NextRace]_vars

\* A session in which the gateway may deliver every SUBMITTED and FILLED
\* status event, every well-formed execution and every commission report more
\* than once.
NextReplay ==
  \/ Submit
  \/ GetNotification
  \/ \E msg \in OrderStatusMsgs :
       msg.status \in {SUBMITTED, FILLED} /\ PushOrderStatus(msg)
  \/ \E ex \in ExecutionMsgs :
       ex.shares > 0 /\ ex.time = GoodTime /\ PushExecutionCounted(ex)
  \/ \E cr \in CommissionReportMsgs : PushCommissionReportCounted(cr)
  \/ PushPortUpdate

SpecReplay == Init /\ [][NextReplay]_vars

\* The execution identifiers of the lots of order oid.
LotsOf(oid) == {ExecIdOf(oid, q) : q \in 1..MaxFilled}

\* push_orderstatus(msg) for a status event that the gateway sends before it
\* reports any lot of the order.
PushCheckpoint(msg) ==
  /\ \A e \in LotsOf(msg.orderId) : fills[e].pushed = 0
  /\ PushOrderStatus(msg)

\* push_execution(ex) for a lot of one share, delivered once, after every
\* status checkpoint of its order was recorded.
PushLot(ex) ==
  /\ ex.shares = 1 /\ ex.time = GoodTime
  /\ fills[ex.execId].pushed = 0
  /\ ex.orderId \in DOMAIN orderbyid
  /\ ex.orderId \in DOMAIN ordstatus
  /\ \A q \in 1..MaxFilled : q \in DOMAIN ordstatus[ex.orderId]
  /\ PushExecutionCounted(ex)

\* push_commissionreport(cr) for a lot whose execution has arrived, delivered
\* once; the reports of the lots of an order come in any order.
PushLotReport(cr) ==
  /\ fills[cr.execId].reported = 0
  /\ cr.execId \in DOMAIN executions
  /\ PushCommissionReportCounted(cr)

\* An order filled in several lots: the gateway sends the status checkpoints,
\* then each lot's execution once and each lot's commission report once.
NextLots ==
  \/ Submit
  \/ GetNotification
  \/ \E msg \in OrderStatusMsgs : PushCheckpoint(msg)
  \/ \E ex \in ExecutionMsgs : PushLot(ex)
  \/ \E cr \in CommissionReportMsgs : PushLotReport(cr)
  \/ PushPortUpdate

SpecLots == Init /\ [][NextLots]_vars

\* --------------------------------------------------------------- properties

Terminal == {Cancelled, Expired, Rejected, Completed}

\* C1: once a tracked order's status is Cancelled, Expired, Rejected or
\* Completed, no later event changes it to a different value.
C1_TerminalStatusIsFinal ==
  [][\A o \in DOMAIN orderbyid :
       orderbyid[o].status \in Terminal
         => /\ o \in DOMAIN orderbyid'
            /\ orderbyid'[o].status = orderbyid[o].status]_vars

\* C2: whatever status and error events arrive, with whatever duplicates,
\* each of accept(), cancel(), expire() and reject() is called at most once on
\* an order, that is the order enters each of Accepted, Cancelled, Expired and
\* Rejected at most once.
C2_EachStateEnteredAtMostOnce ==
  \A o \in OrderIds : \A method \in Methods : calls[o][method] <= 1

\* The number of cancel() and expire() calls made on order o so far.
CancelCalls(history, o) == history[o]["cancel"] + history[o]["expire"]

\* C3: a CANCELLED or APICANCELLED status event for a tracked order that is
\* not yet Cancelled or Expired makes exactly one cancel() or expire() call,
\* leaves the order Cancelled or Expired and enqueues exactly one notification,
\* a clone of the order; delivered to an order that is already Cancelled or
\* Expired (as the 2nd..nth event of a run of them is) it changes nothing.
C3_DuplicateCancelIsDiscarded ==
  [][\A msg \in OrderStatusMsgs :
       (/\ msg.status \in {CANCELLED, APICANCELLED}
        /\ msg.orderId \in DOMAIN orderbyid
        /\ PushOrderStatusCounted(msg))
         => IF orderbyid[msg.orderId].status \in {Cancelled, Expired}
              THEN UNCHANGED <<orderbyid, notifs, ordstatus, calls>>
              ELSE /\ CancelCalls(calls', msg.orderId)
                        = CancelCalls(calls, msg.orderId) + 1
                   /\ \A method \in {"accept", "reject"} :
                         calls'[msg.orderId][method] = calls[msg.orderId][method]
                   /\ orderbyid'[msg.orderId].status \in {Cancelled, Expired}
                   /\ notifs' = Append(notifs, orderbyid'[msg.orderId])
                   /\ ordstatus' = ordstatus]_vars

\* A CANCELLED or APICANCELLED event has just been discarded as a duplicate:
\* the order had been cancelled once, by an earlier event.
C3_Witness ==
  /\ last.event \in {CANCELLED, APICANCELLED}
  /\ last.call = "none"
  /\ last.id \in DOMAIN orderbyid
  /\ orderbyid[last.id].status = Cancelled
  /\ CancelCalls(calls, last.id) = 1

\* The execution of commission report cr is known, and the ledger holds no
\* entry at its order and cumulative quantity.
JoinFails(cr) ==
  /\ cr.execId \in DOMAIN executions
  /\ LET ex == executions[cr.execId]
     IN \/ ex.orderId \notin DOMAIN ordstatus
        \/ ex.cumQty \notin DOMAIN ordstatus[ex.orderId]

\* C4: a commission report whose execution is known but whose ledger entry is
\* missing changes nothing: the execution map, the ledger and its order keys,
\* the order table, the position, the pending-notify list and the
\* notification queue are the same before and after push_commissionreport.
C4_JoinFailureChangesNothing ==
  [][\A cr \in CommissionReportMsgs :
       (JoinFails(cr) /\ PushCommissionReport(cr))
         => UNCHANGED <<executions, ordstatus, orderbyid, position, tonotify,
                        notifs>>]_vars

\* The notifications of order o among those appended to the queue by a step.
Enqueued(o) ==
  {i \in (Len(notifs) + 1)..Len(notifs') : notifs'[i].orderId = o}

\* C5: push_commissionreport enqueues no notification; push_portupdate
\* enqueues exactly one notification, a clone of the order as it is then, for
\* every order with one or more commission reports reconciled since the
\* previous push_portupdate, none for any other order, and leaves the
\* pending-notify list empty.
C5_OneNotificationPerPortfolioUpdate ==
  [][/\ \A cr \in CommissionReportMsgs :
          PushCommissionReport(cr) => notifs' = notifs
     /\ PushPortUpdate
          => /\ tonotify' = <<>>
             /\ SubSeq(notifs', 1, Len(notifs)) = notifs
             /\ \A o \in OrderIds :
                  IF reconciled[o] >= 1
                    THEN /\ Cardinality(Enqueued(o)) = 1
                         /\ \A i \in Enqueued(o) : notifs'[i] = orderbyid[o]
                    ELSE Enqueued(o) = {}]_vars

\* The notification of the submission is still at the head of the queue, so
\* nothing was ever taken from it, and behind it stands the one notification
\* of an order completed by two reconciled lots: both lots were flushed by one
\* push_portupdate.
C5_Witness ==
  \E o \in DOMAIN orderbyid :
    /\ orderbyid[o].status = Completed
    /\ orderbyid[o].executed \in {2 * MaxShares, -(2 * MaxShares)}
    /\ tonotify = <<>>
    /\ reconciled[o] = 0
    /\ Len(notifs) = 2
    /\ notifs[1] = OrderSubmit(NewOrder(o, 0))
    /\ notifs[2] = orderbyid[o]

\* C6: a rebuilt record never replaces an entry of the order table, and at
\* most one record is built from open-order messages per order identifier:
\* no tracked record is the second or a later one rebuilt for its identifier,
\* and no record built by submit() gives way to a rebuilt one.
C6_NoDuplicateRecord ==
  [][\A o \in DOMAIN orderbyid :
       /\ orderbyid'[o].serial = orderbyid[o].serial
       /\ orderbyid[o].serial <= 1]_vars

\* C7: cancel(order) changes nothing but the requests sent to the gateway; it
\* sends one exactly when the order is tracked and the order passed is not
\* Cancelled; and an order becomes Cancelled only in a push_orderstatus or a
\* push_ordererror step.
C7_CancelIsFireAndForget ==
  [][/\ \A order \in CancelArgs :
          Cancel(order)
            => /\ UNCHANGED <<orderbyid, ordstatus, notifs, executions,
                              tonotify, position>>
               /\ ib_cancelled' =
                    IF order.orderId \in DOMAIN orderbyid
                         /\ order.status # Cancelled
                      THEN ib_cancelled \cup {order.orderId}
                      ELSE ib_cancelled
     /\ \A o \in DOMAIN orderbyid :
          (orderbyid[o].status # Cancelled /\ orderbyid'[o].status = Cancelled)
            => \/ \E msg \in OrderStatusMsgs : PushOrderStatusCounted(msg)
               \/ \E msg \in OrderErrorMsgs : PushOrderErrorCounted(msg)]_vars

\* A cancel request was sent for a tracked order and the gateway has since
\* confirmed it: the order is Cancelled, by one cancel() call.
C7_Witness ==
  \E o \in ib_cancelled :
    /\ o \in DOMAIN orderbyid
    /\ orderbyid[o].status = Cancelled
    /\ CancelCalls(calls, o) = 1

\* C8: next() never waits: it is never inside its drain loop with nothing in
\* the opened-orders queue to get.
C8_NextNeverWaits == ~(pc = "drain" /\ opened_orders = <<>>)

\* C9: the order table and the ledger change only in steps taken while the
\* lock is held, and submit() is never in progress while a handler holds the
\* lock.
C9_MutationOnlyUnderLock ==
  [][/\ (orderbyid' # orderbyid \/ ordstatus' # ordstatus)
          => lock_orders # "free"
     /\ ~(pc # "idle" /\ lock_orders # "free")]_vars

\* C10: a ledger entry of a positive cumulative quantity leaves the ledger
\* only in the step that reconciles the commission report of the execution
\* with that order and that cumulative quantity.
C10_EntryLeavesByMatchingReport ==
  [][\A o \in DOMAIN ordstatus : \A q \in DOMAIN ordstatus[o] :
       (q > 0 /\ (o \notin DOMAIN ordstatus' \/ q \notin DOMAIN ordstatus'[o]))
         => \E cr \in CommissionReportMsgs :
              /\ cr.execId \in DOMAIN executions
              /\ executions[cr.execId].orderId = o
              /\ executions[cr.execId].cumQty = q
              /\ PushCommissionReport(cr)]_vars

C12_ErrorCodesMapToTransitions ==
  [][\A msg \in OrderErrorMsgs :
       PushOrderErrorCounted(msg)
         => LET Nothing == UNCHANGED <<orderbyid, notifs, ordstatus, calls>>
                Moves(method, status) ==
                  /\ calls' = [calls EXCEPT ![msg.id][method] = @ + 1]
                  /\ orderbyid' = [orderbyid EXCEPT ![msg.id].status = status]
                  /\ notifs' = Append(notifs, orderbyid'[msg.id])
                  /\ ordstatus' = ordstatus
            IN IF msg.id \notin DOMAIN orderbyid THEN Nothing
               ELSE IF msg.errorCode = 202
                 THEN IF orderbyid[msg.id].status
                           \in {Created, Submitted, Accepted, Partial}
                        THEN Moves("cancel", Cancelled)
                        ELSE Nothing
               ELSE IF msg.errorCode = 201
                 THEN IF orderbyid[msg.id].status = Rejected
                        THEN Nothing
                        ELSE Moves("reject", Rejected)
               ELSE Moves("reject", Rejected)]_vars

\* The last event was an error that called cancel(), which only code 202 on
\* an alive order does, and the order is Cancelled.
C12_Witness ==
  /\ last.event = "error"
  /\ last.call = "cancel"
  /\ last.id \in DOMAIN orderbyid
  /\ orderbyid[last.id].status = Cancelled

\* C13: the notification that submit() enqueues carries the status Submitted,
\* and no notification of the same order is in the queue before it.
C13_SubmitNotifiesFirst ==
  [][SubmitNotify
       => /\ notifs'[Len(notifs')].orderId = nextOrderId - 1
          /\ notifs'[Len(notifs')].status = Submitted
          /\ \A i \in DOMAIN notifs : notifs[i].orderId # nextOrderId - 1]_vars

\* C14: a SUBMITTED, FILLED, PENDINGSUBMIT or PRESUBMITTED status event with
\* filled > 0 for a tracked order sets the ledger entry at (orderId, filled) to
\* that message, keeps every other ledger entry, and leaves the order table
\* with the order's status, the execution map, the pending-notify list, the
\* notification queue and the position unchanged.
C14_FillCheckpointIsOnlyRecorded ==
  [][\A msg \in OrderStatusMsgs :
       (/\ msg.filled > 0
        /\ msg.status \in {SUBMITTED, FILLED, PENDINGSUBMIT, PRESUBMITTED}
        /\ msg.orderId \in DOMAIN orderbyid
        /\ PushOrderStatus(msg))
         => LET o == msg.orderId
                before == IF o \in DOMAIN ordstatus
                            THEN DOMAIN ordstatus[o] ELSE {}
            IN /\ DOMAIN ordstatus' = DOMAIN ordstatus \cup {o}
               /\ DOMAIN ordstatus'[o] = before \cup {msg.filled}
               /\ ordstatus'[o][msg.filled] = msg.status
               /\ \A q \in before \ {msg.filled} :
                    ordstatus'[o][q] = ordstatus[o][q]
               /\ \A other \in DOMAIN ordstatus \ {o} :
                    ordstatus'[other] = ordstatus[other]
               /\ UNCHANGED <<orderbyid, executions, tonotify, notifs,
                              position>>]_vars

\* Two fill checkpoints of an order are recorded, one of them by a
\* PRESUBMITTED event; the order is still Submitted and only the notification
\* of its submission is queued.
C14_Witness ==
  \E o \in DOMAIN orderbyid :
    /\ o \in DOMAIN ordstatus
    /\ DOMAIN ordstatus[o] = {1, 2}
    /\ ordstatus[o][1] = PRESUBMITTED
    /\ ordstatus[o][2] = FILLED
    /\ orderbyid[o].status = Submitted
    /\ notifs = <<orderbyid[o]>>

\* C15: when the last event was an open-order message that reported a
\* tracked order as PendingCancel, a CANCELLED or APICANCELLED status event
\* for that order, not yet Cancelled or Expired, moves it to Expired.
C15_SnapshotThenCancelExpires ==
  [][\A msg \in OrderStatusMsgs :
       (/\ last.event = "openOrder PendingCancel"
        /\ last.id = msg.orderId
        /\ msg.status \in {CANCELLED, APICANCELLED}
        /\ msg.orderId \in DOMAIN orderbyid
        /\ orderbyid[msg.orderId].status \notin {Cancelled, Expired}
        /\ PushOrderStatusCounted(msg))
         => orderbyid'[msg.orderId].status = Expired]_vars

\* C16: after a successful commission reconciliation the order is Completed
\* when the status stored in the popped ledger entry was FILLED, and the order
\* then has no entry left in the ledger map; otherwise the order is Partial
\* and its other ledger entries are kept.
C16_CompletedExactlyWhenFilled ==
  [][\A cr \in CommissionReportMsgs :
       (PushCommissionReport(cr) /\ CommissionReport(cr).ok)
         => LET ex == executions[cr.execId]
                o == ex.orderId
            IN IF ordstatus[o][ex.cumQty] = FILLED
                 THEN /\ orderbyid'[o].status = Completed
                      /\ o \notin DOMAIN ordstatus'
                 ELSE /\ orderbyid'[o].status = Partial
                      /\ o \in DOMAIN ordstatus'
                      /\ ordstatus'[o] = Remove(ordstatus[o], ex.cumQty)]_vars

\* The first lot of an order was reconciled against a SUBMITTED checkpoint:
\* the order is Partial and its FILLED checkpoint is still in the ledger.
C16_Witness ==
  \E o \in DOMAIN orderbyid :
    /\ orderbyid[o].status = Partial
    /\ orderbyid[o].executed # 0
    /\ reconciled[o] = 1
    /\ o \in DOMAIN ordstatus
    /\ DOMAIN ordstatus[o] = {MaxFilled}
    /\ ordstatus[o][MaxFilled] = FILLED

\* C17: a commission report whose execId is not in the execution map, and a
\* status event whose orderId is not in the order table, leave the order
\* table, the execution map, the ledger, the pending-notify list, the
\* notification queue and the position unchanged.
C17_UnknownReferenceIsDropped ==
  [][/\ \A cr \in CommissionReportMsgs :
          (cr.execId \notin DOMAIN executions /\ PushCommissionReport(cr))
            => UNCHANGED <<orderbyid, executions, ordstatus, tonotify, notifs,
                           position>>
     /\ \A msg \in OrderStatusMsgs :
          (msg.orderId \notin DOMAIN orderbyid /\ PushOrderStatus(msg))
            => UNCHANGED <<orderbyid, executions, ordstatus, tonotify, notifs,
                           position>>]_vars

\* No order is tracked, so every status event refers to an unknown order, and
\* an execution is known while another is not, so a commission report of the
\* other refers to an unknown execution; the tables and queues are as the
\* executions alone left them.
C17_Witness ==
  /\ orderbyid = <<>>
  /\ executions # <<>>
  /\ DOMAIN executions # ExecIds
  /\ ordstatus = <<>>
  /\ notifs = <<>>
  /\ tonotify = <<>>

\* The open-order message is of another client, or its permId has no
\* persisted metadata, or the persisted order_id is not its orderId.
PersistenceMiss(msg) ==
  \/ msg.clientId # "me"
  \/ msg.permId = 0
  \/ msg.permId # msg.orderId

\* C18: when the drain loop of next() takes such an open-order message from
\* the queue, no record is registered and no notification is enqueued, and
\* next() stays in the loop with the rest of the queue.
C18_PersistenceMissIsDropped ==
  [][(/\ pc = "drain"
      /\ opened_orders # <<>>
      /\ Head(opened_orders) # OpenOrderEnd
      /\ PersistenceMiss(Head(opened_orders))
      /\ NextDrain)
       => /\ UNCHANGED <<orderbyid, notifs, ordstatus, executions, tonotify>>
          /\ pc' = "drain"
          /\ opened_orders' = Tail(opened_orders)]_vars

\* next() is in its drain loop and has taken every queued message, none of
\* which was the end marker; nothing is registered and nothing is enqueued, so
\* every message taken was dropped.
C18_Witness ==
  /\ pc = "drain"
  /\ opened_orders = <<>>
  /\ orderbyid = <<>>
  /\ notifs = <<>>

IsPrefix(a, b) == Len(a) <= Len(b) /\ SubSeq(b, 1, Len(a)) = a
Markers(queue) == Cardinality({i \in DOMAIN queue : queue[i] = Boundary})

\* C19: get_notification takes the head of the queue and every other step
\* only appends to it, so items leave in the order they were enqueued; the
\* step in which a call of next() returns appends one boundary marker at the
\* end of the queue, behind everything enqueued before and during the call,
\* and no marker is appended while the call is in its drain loop.
C19_QueueIsFifoAndCycleDelimited ==
  [][/\ GetNotification
          => notifs' = IF notifs = <<>> THEN <<>> ELSE Tail(notifs)
     /\ ~GetNotification => IsPrefix(notifs, notifs')
     /\ ((NextBegin \/ NextDrain) /\ pc' = "idle")
          => notifs' = Append(notifs, Boundary)
     /\ pc' = "drain" => Markers(notifs') = Markers(notifs)]_vars

\* A call of next() has rebuilt an order in its drain loop and returned: the
\* notification of the rebuilt order and, behind it, the boundary marker.
C19_Witness ==
  /\ pc = "idle"
  /\ Len(notifs) = 2
  /\ notifs[1] = NewOrder(notifs[1].orderId, 1)
  /\ notifs[2] = Boundary

\* C20: the duplicate detection and the transition act as one step: whatever
\* the interleaving of the gateway threads that deliver CANCELLED or
\* APICANCELLED status events and the error 202 for one order, cancel() or
\* expire() is called, and its notification enqueued, only on an order that
\* is not Cancelled or Expired at that moment.
C20_CancelledOnceUnderRace ==
  [][\A o \in OrderIds :
       CancelCalls(calls', o) > CancelCalls(calls, o)
         => o \in DOMAIN orderbyid /\ ~CancelSeen(orderbyid[o])]_vars

\* C21: each execution is applied at most once: however often the status
\* events, the executions and the commission reports are delivered, one
\* execution identifier causes at most one position update and at most one
\* execute() on its order.
C21_ExecutionAppliedAtMostOnce ==
  \A e \in ExecIds : fills[e].position <= 1 /\ fills[e].executed <= 1

\* The fills applied to the order records by execute(): the sum of
\* order.executed over the orders of the set S of the order table.
RECURSIVE AppliedFills(_)
AppliedFills(S) ==
  IF S = {} THEN 0
  ELSE LET o == CHOOSE x \in S : TRUE
       IN orderbyid[o].executed + AppliedFills(S \ {o})

\* C22: commission reconciliation is all-or-nothing: in every reachable state
\* the position is exactly the sum of the fills applied to the order records
\* by execute(), a push_commissionreport that fails having left the position
\* as it was.
C22_PositionReflectsAppliedFills ==
  position = AppliedFills(DOMAIN orderbyid)

\* C23: no fill is lost by completion: once every lot of an order has been
\* delivered and reported, in whatever order the reports came, a Completed
\* order with no execution left in the execution map has had every lot
\* applied: order.executed is the cumulative quantity of the FILLED checkpoint.
C23_NoFillLostByCompletion ==
  \A o \in DOMAIN orderbyid :
    (/\ \A e \in LotsOf(o) : fills[e].pushed = 1 /\ fills[e].reported = 1
     /\ orderbyid[o].status = Completed
     /\ \A e \in DOMAIN executions : executions[e].orderId # o)
      => orderbyid[o].executed =
           (IF ExecSide(o) = "BOT" THEN MaxFilled ELSE -MaxFilled)

\* C24: in every reachable state the pending-notify list holds no order
\* identifier twice and only keys of the order table, so the drain of
\* push_portupdate started in that state empties the list without a failed
\* lookup and enqueues one notification per pending order.
C24_PendingNotifyIsSetOfTrackedOrders ==
  /\ \A i, j \in DOMAIN tonotify : i # j => tonotify[i] # tonotify[j]
  /\ \A i \in DOMAIN tonotify : tonotify[i] \in DOMAIN orderbyid
  /\ LET out == PortDrain(tonotify, notifs)
     IN /\ out.tonotify = <<>>
        /\ Len(out.notifs) = Len(notifs) + Len(tonotify)
        /\ \A i, j \in (Len(notifs) + 1)..Len(out.notifs) :
             i # j => out.notifs[i].orderId # out.notifs[j].orderId

\* An order is pending notification once although two commission reports
\* were reconciled for it since the last push_portupdate.
C24_Witness ==
  \E o \in DOMAIN orderbyid :
    /\ tonotify = <<o>>
    /\ reconciled[o] = 2

=============================================================================
